---- MODULE Spec2Model ----
(***************************************************************************)
(* Model of the vacancy statistics collector of language-salary:           *)
(* main.py (get_vacancies_statistics and its two provider wrappers) and    *)
(* hh.py (the two stand-alone collectors), with the salary predictors.     *)
(*                                                                         *)
(* Salaries are Python floats in the code.  Every value the predictors     *)
(* build from integer bounds is a multiple of 0.1 ((a+b)/2, 1.2*a, 0.8*b), *)
(* so a predicted salary is represented by its number of tenths of a       *)
(* rouble; int(np.mean(..)) is the truncation of the exact quotient.       *)
(* An optional value (Python None) is the empty tuple, a present value x   *)
(* is <<x>>.                                                               *)
(***************************************************************************)
EXTENDS Integers, Sequences, FiniteSets, TLC

VARIABLES provider,               \* which collector runs, with its arguments
          pc,                     \* position in the collector
          language_idx,           \* position of the `for language` loop
          page_number,            \* position of the `for page_number` loop
          total_salaries, vacancies_found, vacancies_processed,
          vacancies, vacancy, salary, salaries,
          vacancies_by_language,  \* the report being filled
          error,                  \* the exception that left the collector
          returned,               \* the value handed back to the caller
          trace                   \* requests.get and time.sleep calls so far

vars == <<provider, pc, language_idx, page_number, total_salaries,
          vacancies_found, vacancies_processed, vacancies, vacancy, salary,
          salaries, vacancies_by_language, error, returned, trace>>

----------------------------------------------------------------------------
(* Bounds of the model *)

\* how many of the languages of POPULAR_LANGUAGES a modelled run walks through
NumLanguages == 2
\* the provider holds postings on its first MaxDataPages pages only
MaxDataPages == 2
\* postings on one page
MaxPageLen == 2
\* postings served during one run
MaxItems == 3

----------------------------------------------------------------------------
(* Constants of the program *)

HH_MAX_VACANCIES_QUANTITY == 2000
HH_VACANCIES_PER_PAGE == 100
HH_MOSCOW_ID == 1
SJ_MAX_VACANCIES_QUANTITY == 500
SJ_VACANCIES_PER_PAGE == 100
SJ_MOSCOW_ID == 4

\* tenths in a rouble: the unit of predicted salaries
Scale == 10
\* salary_from_coef = 1.2 and salary_to_coef = 0.8, in tenths
salary_from_coef == 12
salary_to_coef == 8

ALL_LANGUAGES ==
    << "JavaScript", "Java", "Python", "C#", "TypeScript", "PHP", "Kotlin", "C++" >>

POPULAR_LANGUAGES == SubSeq(ALL_LANGUAGES, 1, NumLanguages)

None == << >>
Some(x) == << x >>

----------------------------------------------------------------------------
(* The salary predictors *)

\* The outcome of a call: the exception raised ("" for none) and the value.
Returns(v) == [exc |-> "", value |-> v]
Raises(e) == [exc |-> e, value |-> None]

\* Python truthiness of an optional number: None and 0 are false
Truthy(x) == x # None /\ x[1] # 0

\* predict_salary with the two coefficients exchanged
predict_salary_swapped(salary_from, salary_to) ==
    IF Truthy(salary_from) /\ Truthy(salary_to)
    THEN Some(((salary_from[1] + salary_to[1]) * Scale) \div 2)
    ELSE IF Truthy(salary_from)
    THEN Some(salary_to_coef * salary_from[1])
    ELSE IF Truthy(salary_to)
    THEN Some(salary_from_coef * salary_to[1])
    ELSE None

predict_salary(salary_from, salary_to) ==
    IF Truthy(salary_from) /\ Truthy(salary_to)
    THEN Some(((salary_from[1] + salary_to[1]) * Scale) \div 2)
    ELSE IF Truthy(salary_from)
    THEN Some(salary_from_coef * salary_from[1])
    ELSE IF Truthy(salary_to)
    THEN Some(salary_to_coef * salary_to[1])
    ELSE None

\* predict_rub_salary_hh without the test of the currency
predict_any_currency_hh(v) ==
    IF v.salary = None
    THEN Raises("TypeError")
    ELSE Returns(predict_salary(v.salary[1].from, v.salary[1].to))

\* A HeadHunter vacancy is [salary |-> None] or
\* [salary |-> <<[from |-> .., to |-> .., currency |-> ..]>>].
predict_rub_salary_hh(v) ==
    IF v.salary = None
    THEN Raises("TypeError")            \* None['currency']
    ELSE IF v.salary[1].currency = "RUR"
    THEN Returns(predict_salary(v.salary[1].from, v.salary[1].to))
    ELSE Returns(None)

\* A SuperJob vacancy is [payment_from |-> .., payment_to |-> .., currency |-> ..];
\* a record may lack a key.
predict_rub_salary_superjob(v) ==
    IF "currency" \notin DOMAIN v
    THEN Raises("KeyError")
    ELSE IF v.currency = "rub"
    THEN IF {"payment_from", "payment_to"} \subseteq DOMAIN v
         THEN Returns(predict_salary(v.payment_from, v.payment_to))
         ELSE Raises("KeyError")
    ELSE Returns(None)

salary_prediction_function(p, v) ==
    IF p.site = "hh" THEN predict_rub_salary_hh(v) ELSE predict_rub_salary_superjob(v)

----------------------------------------------------------------------------
(* The four collectors and their arguments *)

\* main.py: get_vacancies_statistics_hh
HHMain ==
    [module |-> "main.py", site |-> "hh",
     max_vacancies_quantity |-> HH_MAX_VACANCIES_QUANTITY,
     vacancies_per_page |-> HH_VACANCIES_PER_PAGE,
     per_page_value |-> HH_VACANCIES_PER_PAGE,
     text_field_name |-> "text", location_field_name |-> "area",
     items_field_name |-> "items", count_per_page_field_name |-> "per_page",
     city_id |-> HH_MOSCOW_ID, only_with_salary |-> TRUE,
     requests_delay |-> 10]

\* main.py: get_vacancies_statistics_sj
SJMain ==
    [module |-> "main.py", site |-> "sj",
     max_vacancies_quantity |-> SJ_MAX_VACANCIES_QUANTITY,
     vacancies_per_page |-> SJ_VACANCIES_PER_PAGE,
     per_page_value |-> SJ_VACANCIES_PER_PAGE,
     text_field_name |-> "keyword", location_field_name |-> "town",
     items_field_name |-> "objects", count_per_page_field_name |-> "count",
     city_id |-> SJ_MOSCOW_ID, only_with_salary |-> FALSE,
     requests_delay |-> 1]

\* hh.py: get_vacancies_statistics_hh (its page range is built from the SJ_ constants)
HHStandalone ==
    [module |-> "hh.py", site |-> "hh",
     max_vacancies_quantity |-> SJ_MAX_VACANCIES_QUANTITY,
     vacancies_per_page |-> SJ_VACANCIES_PER_PAGE,
     per_page_value |-> HH_VACANCIES_PER_PAGE,
     text_field_name |-> "text", location_field_name |-> "area",
     items_field_name |-> "items", count_per_page_field_name |-> "per_page",
     city_id |-> HH_MOSCOW_ID, only_with_salary |-> TRUE,
     requests_delay |-> 5]

\* hh.py: get_vacancies_statistics_sj
SJStandalone ==
    [module |-> "hh.py", site |-> "sj",
     max_vacancies_quantity |-> SJ_MAX_VACANCIES_QUANTITY,
     vacancies_per_page |-> SJ_VACANCIES_PER_PAGE,
     per_page_value |-> SJ_VACANCIES_PER_PAGE,
     text_field_name |-> "keyword", location_field_name |-> "town",
     items_field_name |-> "objects", count_per_page_field_name |-> "count",
     city_id |-> SJ_MOSCOW_ID, only_with_salary |-> FALSE,
     requests_delay |-> 1]

Providers == {HHMain, SJMain, HHStandalone, SJStandalone}

\* range(int(max_vacancies_quantity / vacancies_per_page))
PagesQuantity(p) == p.max_vacancies_quantity \div p.vacancies_per_page

----------------------------------------------------------------------------
(* The HTTP capability and what the providers may answer *)

period == 30

\* f'Programmist {language}' (the Cyrillic word transliterated), kept as the pair
\* of its two parts
SearchText(language) == << "Programmist", language >>

\* RequestParams asking for the first page whatever page_number is
RequestParamsFirstPage(p, language, page) ==
    (p.text_field_name :> SearchText(language))
    @@ (p.location_field_name :> p.city_id)
    @@ ("period" :> period)
    @@ ("page" :> 0)
    @@ (p.count_per_page_field_name :> p.per_page_value)
    @@ (IF p.only_with_salary THEN ("only_with_salary" :> TRUE) ELSE << >>)

\* the params dict of one request; additional_request_params is
\* {'only_with_salary': True} for HeadHunter
RequestParams(p, language, page) ==
    (p.text_field_name :> SearchText(language))
    @@ (p.location_field_name :> p.city_id)
    @@ ("period" :> period)
    @@ ("page" :> page)
    @@ (p.count_per_page_field_name :> p.per_page_value)
    @@ (IF p.only_with_salary THEN ("only_with_salary" :> TRUE) ELSE << >>)

HHVacancy(from, to, currency) ==
    [salary |-> Some([from |-> from, to |-> to, currency |-> currency])]
HHNoSalary == [salary |-> None]

SJVacancy(from, to, currency) ==
    [payment_from |-> from, payment_to |-> to, currency |-> currency]
SJNoCurrency == [payment_from |-> Some(100), payment_to |-> Some(200)]

\* the postings a provider serves during a modelled run
RunVacancies(site) ==
    IF site = "hh"
    THEN { HHVacancy(Some(100), Some(200), "RUR"),
           HHVacancy(Some(101), None, "RUR"),
           HHVacancy(Some(100), Some(200), "USD"),
           HHNoSalary }
    ELSE { SJVacancy(Some(100), Some(200), "rub"),
           SJVacancy(Some(101), Some(0), "rub"),
           SJVacancy(Some(100), Some(200), "usd"),
           SJNoCurrency }

SeqsUpTo(S, n) == UNION { [1..k -> S] : k \in 0..n }

StatusCodes == {200, 429}

\* a response: its status code and the list under items_field_name of its JSON
\* body (None when the body has no such field)
\* (an answer with an error status lists no posting)
Responses(site) ==
    [status_code : {200},
     items : {None} \cup { Some(page) : page \in SeqsUpTo(RunVacancies(site), MaxPageLen) }]
    \cup [status_code : StatusCodes \ {200}, items : {None, Some(<< >>)}]

\* the collector without the call of raise_for_status
RaiseForStatusSkipped(response) == FALSE

\* response.raise_for_status(): does it raise
RaiseForStatus(response) == response.status_code >= 400

\* what the outside sees of one requests.get: the query, the status code and
\* whether the body has the items field
GetEvent(params, response) ==
    [op |-> "get", params |-> params, status_code |-> response.status_code,
     has_items |-> response.items # None]
SleepEvent(secs) == [op |-> "sleep", secs |-> secs]

\* the collector without the sleep at the end of a language
NoSleepAfterLanguage(p) == << >>

\* time.sleep(1) at the end of a page, time.sleep(requests_delay) at the end of
\* a language
SleepAfterPage == << SleepEvent(1) >>
SleepAfterLanguage(p) == << SleepEvent(p.requests_delay) >>

----------------------------------------------------------------------------
(* Aggregation *)

RECURSIVE Flatten(_)
Flatten(ss) == IF ss = << >> THEN << >> ELSE Head(ss) \o Flatten(Tail(ss))

RECURSIVE Sum(_)
Sum(s) == IF s = << >> THEN 0 ELSE Head(s) + Sum(Tail(s))

\* Python int(x) of the quotient n/d, d > 0: truncation toward zero
IntTrunc(n, d) == IF n >= 0 THEN n \div d ELSE -((-n) \div d)

\* the mean of the means of the pages that hold an estimate, instead of the
\* mean of all the estimates
NonEmptyPages(ts) == SelectSeq(ts, LAMBDA y : y # << >>)
RECURSIVE ProductOfLengths(_)
ProductOfLengths(ts) ==
    IF ts = << >> THEN 1 ELSE Len(Head(ts)) * ProductOfLengths(Tail(ts))
RECURSIVE SumOfScaledPageSums(_, _)
SumOfScaledPageSums(ts, d) ==
    IF ts = << >> THEN 0
    ELSE Sum(Head(ts)) * (d \div Len(Head(ts))) + SumOfScaledPageSums(Tail(ts), d)
MeanOfPageMeans(ts) ==
    LET pages == NonEmptyPages(ts)
        d == ProductOfLengths(pages)
    IN IF pages = << >>
       THEN Raises("ValueError")
       ELSE Returns(Some(IntTrunc(SumOfScaledPageSums(pages, d),
                                  Scale * d * Len(pages))))

\* int(np.mean([x for y in total_salaries for x in y])); np.mean of an empty
\* list is nan and int(nan) raises ValueError
AverageSalary(ts) ==
    IF Flatten(ts) = << >>
    THEN Raises("ValueError")
    ELSE Returns(Some(IntTrunc(Sum(Flatten(ts)), Scale * Len(Flatten(ts)))))

\* the collector without the addition to vacancies_found
FoundNotAdded(found, page) == found

\* vacancies_found += len(vacancies)
FoundAfter(found, page) == found + Len(page)

EmptyEntry ==
    [vacancies_found |-> None, vacancies_processed |-> None, average_salary |-> None]

Languages == 1..Len(POPULAR_LANGUAGES)

\* postings served to the languages already completed
RECURSIVE ServedBefore(_, _)
ServedBefore(report, k) ==
    IF k = 0 THEN 0
    ELSE ServedBefore(report, k - 1)
         + (IF report[k].vacancies_found = None THEN 0 ELSE report[k].vacancies_found[1])

----------------------------------------------------------------------------
(* The collector: main.py get_vacancies_statistics, hh.py                  *)
(* get_vacancies_statistics_hh and get_vacancies_statistics_sj             *)

Language == POPULAR_LANGUAGES[language_idx]

\* vacancies_by_language = {key: {} for key in POPULAR_LANGUAGES}
Init ==
    /\ provider \in Providers
    /\ pc = "for_language"
    /\ language_idx = 0
    /\ page_number = 0
    /\ total_salaries = << >>
    /\ vacancies_found = 0
    /\ vacancies_processed = 0
    /\ vacancies = << >>
    /\ vacancy = None
    /\ salary = None
    /\ salaries = << >>
    /\ vacancies_by_language = [l \in Languages |-> EmptyEntry]
    /\ error = None
    /\ returned = None
    /\ trace = << >>

\* for language in POPULAR_LANGUAGES: total_salaries = []; vacancies_found = 0;
\* vacancies_processed = 0
NextLanguage ==
    /\ pc = "for_language"
    /\ language_idx < Len(POPULAR_LANGUAGES)
    /\ language_idx' = language_idx + 1
    /\ page_number' = 0
    /\ total_salaries' = << >>
    /\ vacancies_found' = 0
    /\ vacancies_processed' = 0
    /\ pc' = "for_page"
    /\ UNCHANGED <<provider, vacancies, vacancy, salary, salaries,
                   vacancies_by_language, error, returned, trace>>

\* return vacancies_by_language
Return ==
    /\ pc = "for_language"
    /\ language_idx = Len(POPULAR_LANGUAGES)
    /\ returned' = Some(vacancies_by_language)
    /\ pc' = "done"
    /\ UNCHANGED <<provider, language_idx, page_number, total_salaries,
                   vacancies_found, vacancies_processed, vacancies, vacancy, salary,
                   salaries, vacancies_by_language, error, trace>>

\* what the provider can answer to the request of page_number within the bounds
Answers ==
    { r \in Responses(provider.site) :
        r.items # None =>
          /\ (page_number >= MaxDataPages => r.items[1] = << >>)
          /\ ServedBefore(vacancies_by_language, language_idx - 1)
               + vacancies_found + Len(r.items[1]) <= MaxItems }

\* one page: requests.get, raise_for_status, response.json()[items_field_name],
\* vacancies_found += len(vacancies), salaries = []
GetPage ==
    /\ pc = "for_page"
    /\ page_number < PagesQuantity(provider)
    /\ \E response \in Answers :
         LET params == RequestParams(provider, Language, page_number) IN
         /\ ~RaiseForStatus(response)
         /\ response.items # None
         /\ trace' = Append(trace, GetEvent(params, response))
         /\ vacancies' = response.items[1]
         /\ vacancies_found' = FoundAfter(vacancies_found, response.items[1])
         /\ salaries' = << >>
         /\ pc' = "for_vacancy"
    /\ UNCHANGED <<provider, language_idx, page_number, total_salaries,
                   vacancies_processed, vacancy, salary, vacancies_by_language,
                   error, returned>>

\* response.raise_for_status() raises requests.HTTPError, which holds the
\* response and with it the URL of the request, query string included
GetPageHTTPError ==
    /\ pc = "for_page"
    /\ page_number < PagesQuantity(provider)
    /\ \E response \in Answers :
         LET params == RequestParams(provider, Language, page_number) IN
         /\ RaiseForStatus(response)
         /\ trace' = Append(trace, GetEvent(params, response))
         /\ error' = Some([type |-> "HTTPError", status_code |-> response.status_code,
                           params |-> params])
         /\ pc' = "raised"
    /\ UNCHANGED <<provider, language_idx, page_number, total_salaries,
                   vacancies_found, vacancies_processed, vacancies, vacancy, salary,
                   salaries, vacancies_by_language, returned>>

\* response.json()[items_field_name] raises KeyError
GetPageKeyError ==
    /\ pc = "for_page"
    /\ page_number < PagesQuantity(provider)
    /\ \E response \in Answers :
         LET params == RequestParams(provider, Language, page_number) IN
         /\ ~RaiseForStatus(response)
         /\ response.items = None
         /\ trace' = Append(trace, GetEvent(params, response))
         /\ error' = Some([type |-> "KeyError", status_code |-> response.status_code,
                           params |-> params])
         /\ pc' = "raised"
    /\ UNCHANGED <<provider, language_idx, page_number, total_salaries,
                   vacancies_found, vacancies_processed, vacancies, vacancy, salary,
                   salaries, vacancies_by_language, returned>>

\* for vacancy in vacancies: salary = salary_prediction_function(vacancy);
\* if salary: salaries.append(salary); vacancies_processed += 1
\* (vacancies keeps the postings the loop has not reached yet)
PredictVacancy ==
    /\ pc = "for_vacancy"
    /\ vacancies # << >>
    /\ LET r == salary_prediction_function(provider, Head(vacancies)) IN
         /\ r.exc = ""
         /\ vacancy' = Some(Head(vacancies))
         /\ salary' = r.value
         /\ IF Truthy(r.value)
            THEN /\ salaries' = Append(salaries, r.value[1])
                 /\ vacancies_processed' = vacancies_processed + 1
            ELSE UNCHANGED <<salaries, vacancies_processed>>
    /\ vacancies' = Tail(vacancies)
    /\ UNCHANGED <<provider, pc, language_idx, page_number, total_salaries,
                   vacancies_found, vacancies_by_language, error, returned, trace>>

\* the prediction function raises (TypeError, KeyError)
PredictVacancyRaises ==
    /\ pc = "for_vacancy"
    /\ vacancies # << >>
    /\ LET r == salary_prediction_function(provider, Head(vacancies)) IN
         /\ r.exc # ""
         /\ vacancy' = Some(Head(vacancies))
         /\ error' = Some([type |-> r.exc, status_code |-> 0, params |-> << >>])
    /\ pc' = "raised"
    /\ UNCHANGED <<provider, language_idx, page_number, total_salaries,
                   vacancies_found, vacancies_processed, vacancies, salary, salaries,
                   vacancies_by_language, returned, trace>>

\* total_salaries.append(salaries); time.sleep(1)
\* (the locals of the page, dead from here on, are cleared)
EndPage ==
    /\ pc = "for_vacancy"
    /\ vacancies = << >>
    /\ total_salaries' = Append(total_salaries, salaries)
    /\ trace' = trace \o SleepAfterPage
    /\ page_number' = page_number + 1
    /\ salaries' = << >>
    /\ vacancy' = None
    /\ salary' = None
    /\ pc' = "for_page"
    /\ UNCHANGED <<provider, language_idx, vacancies_found, vacancies_processed,
                   vacancies, vacancies_by_language, error, returned>>

\* the three assignments to vacancies_by_language[language] and
\* time.sleep(requests_delay)
FinishLanguage ==
    /\ pc = "for_page"
    /\ page_number = PagesQuantity(provider)
    /\ AverageSalary(total_salaries).exc = ""
    /\ vacancies_by_language' =
         [vacancies_by_language EXCEPT ![language_idx] =
            [vacancies_found |-> Some(vacancies_found),
             vacancies_processed |-> Some(vacancies_processed),
             average_salary |-> AverageSalary(total_salaries).value]]
    /\ trace' = trace \o SleepAfterLanguage(provider)
    /\ pc' = "for_language"
    /\ UNCHANGED <<provider, language_idx, page_number, total_salaries,
                   vacancies_found, vacancies_processed, vacancies, vacancy, salary,
                   salaries, error, returned>>

\* int(np.mean([])) raises ValueError: in main.py after vacancies_found and
\* vacancies_processed are stored, in hh.py before
FinishLanguageRaises ==
    /\ pc = "for_page"
    /\ page_number = PagesQuantity(provider)
    /\ AverageSalary(total_salaries).exc # ""
    /\ vacancies_by_language' =
         IF provider.module = "main.py"
         THEN [vacancies_by_language EXCEPT ![language_idx] =
                 [vacancies_found |-> Some(vacancies_found),
                  vacancies_processed |-> Some(vacancies_processed),
                  average_salary |-> None]]
         ELSE vacancies_by_language
    /\ error' = Some([type |-> AverageSalary(total_salaries).exc, status_code |-> 0,
                      params |-> << >>])
    /\ pc' = "raised"
    /\ UNCHANGED <<provider, language_idx, page_number, total_salaries,
                   vacancies_found, vacancies_processed, vacancies, vacancy, salary,
                   salaries, returned, trace>>

Next ==
    \/ NextLanguage
    \/ Return
    \/ GetPage
    \/ GetPageHTTPError
    \/ GetPageKeyError
    \/ PredictVacancy
    \/ PredictVacancyRaises
    \/ EndPage
    \/ FinishLanguage
    \/ FinishLanguageRaises

Spec == Init /\ [][Next]_vars

----------------------------------------------------------------------------
(* The predictors and the counting loop on any one posting: the state right  *)
(* after the first page of the first language was fetched, the page holding  *)
(* any posting of RichVacancies, alone or followed by a posting of a run.    *)

BoundValues == {None, Some(-100), Some(0), Some(100), Some(101), Some(200)}
Currencies == {"RUR", "rub", "USD"}

RichVacancies(site) ==
    IF site = "hh"
    THEN { HHVacancy(f, t, c) : f \in BoundValues, t \in BoundValues, c \in Currencies }
         \cup { HHNoSalary }
    ELSE { SJVacancy(f, t, c) : f \in BoundValues, t \in BoundValues, c \in Currencies }
         \cup { SJNoCurrency }

InitEstimate ==
    /\ provider \in Providers
    /\ vacancies \in { << v >> : v \in RichVacancies(provider.site) }
                     \cup { << v, w >> : v \in RichVacancies(provider.site),
                                         w \in RunVacancies(provider.site) }
    /\ pc = "for_vacancy"
    /\ language_idx = 1
    /\ page_number = 0
    /\ total_salaries = << >>
    /\ vacancies_found = FoundAfter(0, vacancies)
    /\ vacancies_processed = 0
    /\ vacancy = None
    /\ salary = None
    /\ salaries = << >>
    /\ vacancies_by_language = [l \in Languages |-> EmptyEntry]
    /\ error = None
    /\ returned = None
    /\ trace = << GetEvent(RequestParams(provider, POPULAR_LANGUAGES[1], 0),
                           [status_code |-> 200, items |-> Some(vacancies)]) >>

NextEstimate ==
    \/ PredictVacancy
    \/ PredictVacancyRaises
    \/ EndPage

SpecEstimate == InitEstimate /\ [][NextEstimate]_vars

----------------------------------------------------------------------------
(* Helpers of the properties *)

IsGet(e) == e.op = "get"
IsSleep(e, secs) == e.op = "sleep" /\ e.secs = secs
GetLanguage(e) == e.params[provider.text_field_name][2]
GetPageNumber(e) == e.params["page"]
LanguageIndex(name) == CHOOSE k \in 1..Len(ALL_LANGUAGES) : ALL_LANGUAGES[k] = name
FailedGet(e) == IsGet(e) /\ (e.status_code \notin 200..299 \/ ~e.has_items)

\* the requests of the k-th language, in the order they were issued
GetsOf(k) == SelectSeq(trace, LAMBDA e : IsGet(e) /\ GetLanguage(e) = POPULAR_LANGUAGES[k])

\* the page loop of the current language is over and its entry is written
LanguageCompleted == pc = "for_language" /\ language_idx >= 1

Entry == vacancies_by_language[language_idx]

\* the range and the currency token of a posting that has them
HasRange(p, v) == IF p.site = "hh" THEN v.salary # None ELSE "currency" \in DOMAIN v
Lower(p, v) == IF p.site = "hh" THEN v.salary[1].from ELSE v.payment_from
Upper(p, v) == IF p.site = "hh" THEN v.salary[1].to ELSE v.payment_to
Currency(p, v) == IF p.site = "hh" THEN v.salary[1].currency ELSE v.currency
TargetToken(p) == IF p.site = "hh" THEN "RUR" ELSE "rub"

\* the page counts and the delays the specification states
StatedPages(p) ==
    IF p.site = "hh" THEN HH_MAX_VACANCIES_QUANTITY \div HH_VACANCIES_PER_PAGE
    ELSE SJ_MAX_VACANCIES_QUANTITY \div SJ_VACANCIES_PER_PAGE
StatedCategoryDelay(p) == IF p.site = "hh" THEN 10 ELSE 1

----------------------------------------------------------------------------
(* C1 *)

\* C1: every language whose pages were all fetched gets an entry whose
\* average_salary is absent exactly when vacancies_processed is 0, and the
\* collector never fails on the mean of no estimate.
C1_AverageAbsentIffNoneProcessed ==
    /\ (error # None => error[1].type # "ValueError")
    /\ \A l \in Languages :
         (l < language_idx \/ (l = language_idx /\ pc \in {"for_language", "done"}))
           => /\ vacancies_by_language[l].vacancies_processed # None
              /\ (vacancies_by_language[l].vacancies_processed = Some(0))
                   <=> (vacancies_by_language[l].average_salary = None)

----------------------------------------------------------------------------
(* C2 *)

\* C2 as stated: with processed > 0, average_salary * processed equals the sum
\* of all the estimates of all the pages.
C2_ExactFlatMean ==
    (LanguageCompleted /\ vacancies_processed > 0)
      => /\ Entry.average_salary # None
         /\ Entry.average_salary[1] * vacancies_processed * Scale
              = Sum(Flatten(total_salaries))

\* C2 amended: average_salary is the mean of the concatenation of all the pages'
\* estimates, truncated toward zero to an integer: it is the integer a with
\* a * processed <= sum < (a + 1) * processed for a sum >= 0 (mirrored below 0).
C2_TruncatedFlatMean ==
    (LanguageCompleted /\ vacancies_processed > 0)
      => LET n == Len(Flatten(total_salaries))
             s == Sum(Flatten(total_salaries))
             a == Entry.average_salary[1]
         IN /\ Entry.average_salary # None
            /\ Entry.vacancies_processed = Some(n)
            /\ s >= 0 => (a * Scale * n <= s /\ s < (a + 1) * Scale * n)
            /\ s < 0 => ((a - 1) * Scale * n < s /\ s <= a * Scale * n)

\* two estimates on one page and one on the next, the flat mean 140.4 reported
\* as 140 (the mean of the page means is 135.6)
C2_Witness ==
    /\ LanguageCompleted
    /\ Len(total_salaries) >= 2
    /\ total_salaries[1] = << 1500, 1500 >>
    /\ total_salaries[2] = << 1212 >>
    /\ Entry.average_salary = Some(140)

----------------------------------------------------------------------------
(* C3 *)

\* C3: at every point of a run processed <= found: the postings of a page are
\* added to found before any of them is looked at, so processed plus the
\* postings still to look at never exceeds found, and processed is the number
\* of estimates kept; the same holds in every entry of the report.
C3_ProcessedAtMostFound ==
    /\ vacancies_processed <= vacancies_found
    /\ pc = "for_vacancy" => vacancies_processed + Len(vacancies) <= vacancies_found
    /\ vacancies_processed = Len(Flatten(total_salaries)) + Len(salaries)
    /\ \A l \in Languages :
         LET e == vacancies_by_language[l] IN
         (e.vacancies_found # None /\ e.vacancies_processed # None)
           => e.vacancies_processed[1] <= e.vacancies_found[1]
    /\ returned # None =>
         \A l \in Languages :
           /\ returned[1][l].vacancies_found # None
           /\ returned[1][l].vacancies_processed # None
           /\ returned[1][l].vacancies_processed[1] <= returned[1][l].vacancies_found[1]

\* a returned report with a language of which some postings only gave an estimate
C3_Witness ==
    /\ returned # None
    /\ \E l \in Languages :
         /\ returned[1][l].vacancies_processed[1] > 0
         /\ returned[1][l].vacancies_processed[1] < returned[1][l].vacancies_found[1]

----------------------------------------------------------------------------
(* C4 *)

\* the case table of predict_salary for the posting just predicted, a bound
\* counting as present according to present(_)
CaseTable(present(_)) ==
    LET lo == Lower(provider, vacancy[1])
        up == Upper(provider, vacancy[1])
    IN IF present(lo) /\ present(up)
       THEN salary # None /\ 2 * salary[1] = Scale * (lo[1] + up[1])
       ELSE IF present(lo)
       THEN salary # None /\ 5 * salary[1] = 6 * Scale * lo[1]
       ELSE IF present(up)
       THEN salary # None /\ 5 * salary[1] = 4 * Scale * up[1]
       ELSE salary = None

JustPredictedInTarget ==
    /\ pc = "for_vacancy"
    /\ vacancy # None
    /\ HasRange(provider, vacancy[1])
    /\ Currency(provider, vacancy[1]) = TargetToken(provider)

IsNumber(x) == x # None
IsNonZeroNumber(x) == x # None /\ x[1] # 0

\* C4 as stated: in the target currency, every bound that is a number (0 and
\* negative numbers included) is present: (lower+upper)/2, lower*1.2,
\* upper*0.8, absent.
C4_ZeroIsPresent == JustPredictedInTarget => CaseTable(IsNumber)

\* C4 amended: the same table, a bound being present when it is a number other
\* than 0 (negative numbers are present and taken as they are; 0 is absent).
C4_ZeroIsAbsent == JustPredictedInTarget => CaseTable(IsNonZeroNumber)

\* lower 0 and upper 100 in the target currency give 80, not 50
C4_Witness ==
    /\ JustPredictedInTarget
    /\ Lower(provider, vacancy[1]) = Some(0)
    /\ Upper(provider, vacancy[1]) = Some(100)
    /\ salary = Some(800)

----------------------------------------------------------------------------
(* C5 *)

ForeignCurrency(p, v) == HasRange(p, v) /\ Currency(p, v) # TargetToken(p)

\* C5: the step of the loop on a posting whose currency is not the provider's
\* token gives no estimate whatever its bounds: the posting is in found, and
\* neither processed nor the estimates kept change.
C5_ForeignCurrencyAbsent ==
    [][(pc = "for_vacancy" /\ vacancies # << >>
          /\ ForeignCurrency(provider, Head(vacancies)))
        => /\ pc' = "for_vacancy"
           /\ vacancy' = Some(Head(vacancies))
           /\ salary' = None
           /\ vacancies_found >= Len(vacancies)
           /\ vacancies_found' = vacancies_found
           /\ vacancies_processed' = vacancies_processed
           /\ salaries' = salaries
           /\ total_salaries' = total_salaries]_vars

\* a posting of 100 to 200 in another currency went through the loop uncounted
C5_Witness ==
    /\ pc = "for_vacancy"
    /\ vacancy # None
    /\ ForeignCurrency(provider, vacancy[1])
    /\ Lower(provider, vacancy[1]) = Some(100)
    /\ Upper(provider, vacancy[1]) = Some(200)
    /\ salary = None
    /\ vacancies_found >= 1
    /\ vacancies_processed = 0

----------------------------------------------------------------------------
(* C6 *)

\* C6: with no failed request, each language gets exactly the stated number of
\* requests (20 for HeadHunter, 5 for SuperJob, in main.py and in hh.py), pages
\* 0, 1, ... in increasing order, never more, whatever the pages hold.
C6_StatedPagesRequested ==
    /\ \A k \in Languages : Len(GetsOf(k)) <= StatedPages(provider)
    /\ \A k \in Languages :
         \A i \in DOMAIN GetsOf(k) : GetPageNumber(GetsOf(k)[i]) = i - 1
    /\ (pc = "for_page" /\ page_number = PagesQuantity(provider))
         => Len(GetsOf(language_idx)) = StatedPages(provider)

----------------------------------------------------------------------------
(* C7 *)

----------------------------------------------------------------------------
(* C8 *)

----------------------------------------------------------------------------
(* C9 *)

NoSalaryData(p, v) == ~HasRange(p, v)

\* C9: a posting that carries no salary data never makes the collection fail.
C9_NoSalaryDataTolerated ==
    ~(pc = "raised" /\ vacancy # None /\ NoSalaryData(provider, vacancy[1]))

----------------------------------------------------------------------------
(* C10 *)

\* C10: every request but the first follows a sleep: the request of the next
\* page follows time.sleep(1), the first request of the next language follows
\* time.sleep(1) and the inter-category delay (10 for HeadHunter and 1 for
\* SuperJob in get_vacancies_statistics); languages are visited in order.
\* (The trace only grows, so the property of its last event at every state is
\* the property of every event.)
C10_DelaysBetweenRequests ==
    LET i == Len(trace) IN
    (i > 2 /\ IsGet(trace[i]))
      => \/ /\ IsSleep(trace[i - 1], 1)
            /\ IsGet(trace[i - 2])
            /\ GetLanguage(trace[i - 2]) = GetLanguage(trace[i])
            /\ GetPageNumber(trace[i]) = GetPageNumber(trace[i - 2]) + 1
         \/ /\ i > 3
            /\ trace[i - 1].op = "sleep"
            /\ trace[i - 1].secs >= 1
            /\ provider.module = "main.py"
                 => trace[i - 1].secs = StatedCategoryDelay(provider)
            /\ IsSleep(trace[i - 2], 1)
            /\ IsGet(trace[i - 3])
            /\ LanguageIndex(GetLanguage(trace[i]))
                 = LanguageIndex(GetLanguage(trace[i - 3])) + 1
            /\ GetPageNumber(trace[i]) = 0

\* the first request of the second language of HeadHunter, 10 s after the last
\* page of the first
C10_Witness ==
    /\ provider = HHMain
    /\ Len(trace) > 3
    /\ IsGet(trace[Len(trace)])
    /\ GetLanguage(trace[Len(trace)]) = "Java"
    /\ GetPageNumber(trace[Len(trace)]) = 0
    /\ IsSleep(trace[Len(trace) - 1], 10)

====
